---------------------------- MODULE Spec2Model ----------------------------
(***************************************************************************)
(* The P2000T mini-cassette drive of src/mame/machine/p2000t.cpp: the      *)
(* MiniCas tape (direction, bit storage, head position), the read-clock    *)
(* flip-flop m_rdc_1 toggled by the rdc_1 timer callback, the status port  *)
(* 0x2x (p2000t_port_202f_r) and the control port 0x1x                     *)
(* (p2000t_port_101f_w).                                                   *)
(*                                                                         *)
(* The tape of the source holds 4 * 1024 * 8 cells and starts at cell 512; *)
(* the model keeps the same code over a tape of DataSize cells starting at *)
(* InitPos.  C++ indexes data[] from 0, TLA+ sequences from 1: the cell    *)
(* data[i] of the source is Cell(c, i) here.                               *)
(***************************************************************************)
EXTENDS Integers, Sequences, FiniteSets

VARIABLES
    cas,          \* static MiniCas cas: [dir, data, pos]
    m_rdc_1,      \* p2000t_state::m_rdc_1
    m_port_101f,  \* p2000t_state::m_port_101f, the last control byte written
    op,           \* the handler that ran last
    ret,          \* what that handler returned: <<>> for void, <<byte>>
    pre,          \* cas as it was when that handler was entered
    rdc_0,        \* the level m_rdc_1 had before the first tick
    ticks         \* how many times rdc_1 has run; MaxTicks stands for more

vars == <<cas, m_rdc_1, m_port_101f, op, ret, pre, rdc_0, ticks>>

---------------------------------------------------------------------------
(* Bounds *)

\* data.resize(4 * 1024 * 8), scaled down
DataSize == 4

\* uint32_t pos = 512, scaled down
InitPos == 2

\* capacities of the tapes the rewind-only specification starts from
MaxCap == 4

\* ticks are counted up to MaxTicks
MaxTicks == 4

\* values of bits 4-7 of the control bytes that are written
HighNibbles == {0, 1, 2, 4, 8, 15}

\* the control bytes written: every value of bits 0-3, with HighNibbles above
Bytes == {lo + 16 * hi : lo \in 0..15, hi \in HighNibbles}

---------------------------------------------------------------------------
(* std::bitset<8> *)

BoolToInt(b) == IF b THEN 1 ELSE 0

\* std::bitset<8> state(data)
bitset8(n) == [i \in 0..7 |-> (n \div (2^i)) % 2 = 1]

\* the empty std::bitset<8> state
bitset8_zero == [i \in 0..7 |-> FALSE]

\* state.set(i, v)
bitset_set(s, i, v) == [s EXCEPT ![i] = v]

\* state.to_ulong()
to_ulong(s) ==
    BoolToInt(s[0]) + 2 * BoolToInt(s[1]) + 4 * BoolToInt(s[2])
    + 8 * BoolToInt(s[3]) + 16 * BoolToInt(s[4]) + 32 * BoolToInt(s[5])
    + 64 * BoolToInt(s[6]) + 128 * BoolToInt(s[7])

\* (~x) & 0xFF: every one of the low eight bits of x flipped
not_and_ff(x) == to_ulong([i \in 0..7 |-> ~ bitset8(x)[i]])

---------------------------------------------------------------------------
(* struct MiniCas *)

\* a tape of n cells, all zero (data.resize), stopped, with the head at p
MiniCasOf(n, p) == [dir |-> "Stop", data |-> [i \in 1..n |-> 0], pos |-> p]

\* static MiniCas cas
MiniCas == MiniCasOf(DataSize, InitPos)

\* data.size()
size(c) == Len(c.data)

\* data[i], i counted from 0 as in the source
Cell(c, i) == c.data[i + 1]

\* valid() without the test of pos > 0
valid_upper_only(c) == c.pos < size(c)

valid(c) == c.pos > 0 /\ c.pos < size(c)

\* fwd() without the end-of-tape test
fwd_unguarded(c) == [c EXCEPT !.dir = "Stop", !.pos = c.pos + 1]

\* fwd() without the assignment to dir
fwd_keeps_dir(c) ==
    [c EXCEPT !.pos = IF c.pos < size(c) THEN c.pos + 1 ELSE c.pos]

\* fwd() testing pos <= data.size()
fwd_inclusive(c) ==
    [c EXCEPT !.dir = "Stop",
              !.pos = IF c.pos <= size(c) THEN c.pos + 1 ELSE c.pos]

fwd(c) ==
    [c EXCEPT !.dir = "Stop",
              !.pos = IF c.pos < size(c) THEN c.pos + 1 ELSE c.pos]

\* rev() refilling the tape with the alternating test pattern
rev_test_pattern(c) ==
    [c EXCEPT !.dir = "Rev",
              !.data = [i \in 1..Len(c.data) |-> (i - 1) % 2]]

\* rev() taking a first step back at once
rev_steps_back(c) ==
    [c EXCEPT !.dir = "Rev",
              !.pos = IF c.pos > 0 THEN c.pos - 1 ELSE c.pos]

rev(c) == [c EXCEPT !.dir = "Rev"]

\* move() without the test of pos
move_unguarded(c) ==
    IF c.dir = "Rev" THEN [c EXCEPT !.pos = c.pos - 1] ELSE c

\* move() without the test of dir
move_any_dir(c) == IF c.pos > 0 THEN [c EXCEPT !.pos = c.pos - 1] ELSE c

move(c) ==
    IF c.dir = "Rev" /\ c.pos > 0
    THEN [c EXCEPT !.pos = c.pos - 1]
    ELSE c

\* stop() without the clamp at the end of tape
stop_low_only(c) ==
    [c EXCEPT !.dir = "Stop", !.pos = IF c.pos = 0 THEN 1 ELSE c.pos]

\* stop() with the end clamp written as: if (pos >= data.size() - 1) pos--
stop_clamp_off_by_one(c) ==
    LET p1 == IF c.pos = 0 THEN 1 ELSE c.pos
        p2 == IF p1 >= size(c) - 1 THEN p1 - 1 ELSE p1
    IN  [c EXCEPT !.dir = "Stop", !.pos = p2]

\* stop() without the clamp at the begin of tape
stop_high_only(c) ==
    [c EXCEPT !.dir = "Stop",
              !.pos = IF c.pos = size(c) THEN size(c) - 1 ELSE c.pos]

stop(c) ==
    LET p1 == IF c.pos = 0 THEN 1 ELSE c.pos
        p2 == IF p1 = size(c) THEN size(c) - 1 ELSE p1
    IN  [c EXCEPT !.dir = "Stop", !.pos = p2]

\* write() storing into data[pos]
write_off_by_one(c, bit) ==
    IF valid(c)
    THEN [c EXCEPT !.data[c.pos + 1] = BoolToInt(bit)]
    ELSE c

\* write() testing only pos > 0
write_past_end(c, bit) ==
    IF c.pos > 0
    THEN [c EXCEPT !.data[(c.pos - 1) + 1] = BoolToInt(bit)]
    ELSE c

write(c, bit) ==
    IF valid(c)
    THEN [c EXCEPT !.data[(c.pos - 1) + 1] = BoolToInt(bit)]
    ELSE c

read(c) == valid(c) /\ Cell(c, c.pos - 1) = 1

---------------------------------------------------------------------------
(* p2000t_state *)

\* p2000t_port_202f_r without the final complement
status_202f_noflip(c, rdc) ==
    LET s3 == bitset_set(bitset8_zero, 3, TRUE)
        s4 == bitset_set(s3, 4, TRUE)
        s5 == bitset_set(s4, 5, ~ valid(c))
        s6 == bitset_set(s5, 6, rdc)
        s7 == bitset_set(s6, 7, read(c))
    IN  to_ulong(s7)

\* the byte p2000t_port_202f_r returns for tape c and clock level rdc
status_202f(c, rdc) ==
    LET s3 == bitset_set(bitset8_zero, 3, TRUE)
        s4 == bitset_set(s3, 4, TRUE)
        s5 == bitset_set(s4, 5, ~ valid(c))
        s6 == bitset_set(s5, 6, rdc)
        s7 == bitset_set(s6, 7, read(c))
    IN  not_and_ff(to_ulong(s7))

\* p2000t_port_101f_w stopping whenever the forward bit is clear
cas_101f_stop_unless_fwd(c, data) ==
    LET state == bitset8(data)
        c1 == IF state[1] THEN write(c, state[0]) ELSE c
        c2 == IF state[2] THEN rev(c1) ELSE c1
        c3 == IF state[3] THEN fwd(c2) ELSE c2
        c4 == IF ~ state[3] THEN stop(c3) ELSE c3
    IN  c4

\* p2000t_port_101f_w taking bit 0 as the command and bit 1 as the data
cas_101f_swapped_write_bits(c, data) ==
    LET state == bitset8(data)
        c1 == IF state[0] THEN write(c, state[1]) ELSE c
        c2 == IF state[2] THEN rev(c1) ELSE c1
        c3 == IF state[3] THEN fwd(c2) ELSE c2
        c4 == IF ~ state[2] /\ ~ state[3] THEN stop(c3) ELSE c3
    IN  c4

\* p2000t_port_101f_w testing the forward bit before the rewind bit
cas_101f_fwd_before_rev(c, data) ==
    LET state == bitset8(data)
        c1 == IF state[1] THEN write(c, state[0]) ELSE c
        c2 == IF state[3] THEN fwd(c1) ELSE c1
        c3 == IF state[2] THEN rev(c2) ELSE c2
        c4 == IF ~ state[2] /\ ~ state[3] THEN stop(c3) ELSE c3
    IN  c4

\* p2000t_port_101f_w writing the bit after the motor commands
cas_101f_motor_first(c, data) ==
    LET state == bitset8(data)
        c1 == IF state[2] THEN rev(c) ELSE c
        c2 == IF state[3] THEN fwd(c1) ELSE c1
        c3 == IF ~ state[2] /\ ~ state[3] THEN stop(c2) ELSE c2
        c4 == IF state[1] THEN write(c3, state[0]) ELSE c3
    IN  c4

\* the tape p2000t_port_101f_w(data) leaves
cas_101f(c, data) ==
    LET state == bitset8(data)
        c1 == IF state[1] THEN write(c, state[0]) ELSE c
        c2 == IF state[2] THEN rev(c1) ELSE c1
        c3 == IF state[3] THEN fwd(c2) ELSE c2
        c4 == IF ~ state[2] /\ ~ state[3] THEN stop(c3) ELSE c3
    IN  c4

\* rdc_1 driving the clock line high instead of toggling it
rdc_1_sets_high ==
    /\ m_rdc_1' = TRUE
    /\ cas' = move(cas)
    /\ op' = "rdc_1"
    /\ ret' = <<>>
    /\ pre' = cas
    /\ ticks' = IF ticks < MaxTicks THEN ticks + 1 ELSE ticks
    /\ UNCHANGED <<m_port_101f, rdc_0>>

rdc_1 ==
    /\ m_rdc_1' = ~ m_rdc_1
    /\ cas' = move(cas)
    /\ op' = "rdc_1"
    /\ ret' = <<>>
    /\ pre' = cas
    /\ ticks' = IF ticks < MaxTicks THEN ticks + 1 ELSE ticks
    /\ UNCHANGED <<m_port_101f, rdc_0>>

\* p2000t_port_202f_r with the cas.stop() of line 162 not commented out
p2000t_port_202f_r_stops ==
    /\ ret' = <<status_202f(cas, m_rdc_1)>>
    /\ op' = "p2000t_port_202f_r"
    /\ pre' = cas
    /\ cas' = IF ~ valid(cas) THEN stop(cas) ELSE cas
    /\ UNCHANGED <<m_rdc_1, m_port_101f, rdc_0, ticks>>

p2000t_port_202f_r ==
    /\ ret' = <<status_202f(cas, m_rdc_1)>>
    /\ op' = "p2000t_port_202f_r"
    /\ pre' = cas
    /\ UNCHANGED <<cas, m_rdc_1, m_port_101f, rdc_0, ticks>>

p2000t_port_101f_w(data) ==
    /\ m_port_101f' = data
    /\ cas' = cas_101f(cas, data)
    /\ op' = "p2000t_port_101f_w"
    /\ ret' = <<>>
    /\ pre' = cas
    /\ UNCHANGED <<m_rdc_1, rdc_0, ticks>>

---------------------------------------------------------------------------
(* The machine: any interleaving of control writes, ticks and status reads *)

\* m_rdc_1 and m_port_101f have no initialiser: any value
Init ==
    /\ cas = MiniCas
    /\ m_rdc_1 \in BOOLEAN
    /\ m_port_101f \in Bytes
    /\ op = "init"
    /\ ret = <<>>
    /\ pre = cas
    /\ rdc_0 = m_rdc_1
    /\ ticks = 0

Next ==
    \/ \E data \in Bytes : p2000t_port_101f_w(data)
    \/ rdc_1
    \/ p2000t_port_202f_r

Spec == Init /\ [][Next]_vars

---------------------------------------------------------------------------
(* The rewind-only machine: tapes of every capacity up to MaxCap, driven   *)
(* by nothing but command_reverse (a control write with the rewind bit and *)
(* neither the write-command nor the forward bit) and ticks                *)

RewindBytes ==
    {d \in Bytes : bitset8(d)[2] /\ ~ bitset8(d)[1] /\ ~ bitset8(d)[3]}

InitRewind ==
    /\ \E n \in 1..MaxCap : \E p \in 1..n : cas = MiniCasOf(n, p)
    /\ m_rdc_1 \in BOOLEAN
    /\ m_port_101f \in Bytes
    /\ op = "init"
    /\ ret = <<>>
    /\ pre = cas
    /\ rdc_0 = m_rdc_1
    /\ ticks = 0

NextRewind ==
    \/ \E data \in RewindBytes : p2000t_port_101f_w(data)
    \/ rdc_1

SpecRewind == InitRewind /\ [][NextRewind]_vars

---------------------------------------------------------------------------
(* The rewind scenario: the fresh drive, one command_reverse, then ticks   *)
(* and status reads with no other control write                            *)

NextRewindFresh ==
    \/ op = "init" /\ \E data \in RewindBytes : p2000t_port_101f_w(data)
    \/ op # "init" /\ rdc_1
    \/ op # "init" /\ p2000t_port_202f_r

SpecRewindFresh == Init /\ [][NextRewindFresh]_vars

---------------------------------------------------------------------------
(* Properties *)

\* bit i of byte n
Bit(n, i) == (n \div (2^i)) % 2 = 1

\* the last handler was a control write, a tick, a status read
Wrote == op = "p2000t_port_101f_w"
Ticked == op = "rdc_1"
ReadStatus == op = "p2000t_port_202f_r"

\* the control write that ran last carried the rewind, the forward bit
RewBit == Bit(m_port_101f, 2)
ForBit == Bit(m_port_101f, 3)

\* C1: the byte the status read returns is 255 minus the byte assembled from
\* bit 3 = 1, bit 4 = 1, bit 5 = tape not valid, bit 6 = clock level,
\* bit 7 = read(), bits 0-2 = 0; its bits 0-2 are set and its bits 3-4 clear.
C1_StatusIsComplement ==
    ReadStatus =>
        LET assembled == 8 + 16
                         + (IF valid(cas) THEN 0 ELSE 32)
                         + (IF m_rdc_1 THEN 64 ELSE 0)
                         + (IF read(cas) THEN 128 ELSE 0)
        IN  /\ ret = <<255 - assembled>>
            /\ ret[1] % 8 = 7
            /\ (ret[1] \div 8) % 4 = 0

\* a status read over a set tape bit with the clock low: 255 - (8+16+128)
C1_Witness ==
    /\ ReadStatus
    /\ read(cas)
    /\ ~ m_rdc_1
    /\ ret = <<103>>

\* C2: after a control write the direction and the position depend only on
\* bits 2 and 3 of the byte and on the tape before the write: rewind alone
\* gives Rev at the same position, forward alone gives the forward step,
\* neither gives Stop with the position clamped into 1 .. size-1.
C2_MotorFromBits2And3 ==
    Wrote =>
        LET n == Len(pre.data)
        IN  /\ (RewBit /\ ~ ForBit) =>
                   (cas.dir = "Rev" /\ cas.pos = pre.pos)
            /\ (ForBit /\ ~ RewBit) =>
                   /\ cas.dir = "Stop"
                   /\ cas.pos = IF pre.pos < n THEN pre.pos + 1 ELSE pre.pos
            /\ (~ RewBit /\ ~ ForBit) =>
                   /\ cas.dir = "Stop"
                   /\ cas.pos = IF pre.pos = 0 THEN 1
                                ELSE IF pre.pos = n THEN n - 1
                                ELSE pre.pos

\* a stop written with bits 4-7 all set, to a tape reversing at position 0
C2_Witness ==
    /\ Wrote
    /\ m_port_101f = 240
    /\ pre.dir = "Rev"
    /\ pre.pos = 0
    /\ cas.dir = "Stop"
    /\ cas.pos = 1

\* C3: a tick takes one from the position when the tape is reversing above
\* position 0 and leaves it alone otherwise; it never changes the direction,
\* and a tape that was reversing stops reversing only in a control write
\* that carries the forward bit or lacks the rewind bit.
C3_TickMovesOnlyInReverse ==
    /\ Ticked =>
           /\ cas.pos = IF pre.dir = "Rev" /\ pre.pos > 0
                        THEN pre.pos - 1 ELSE pre.pos
           /\ cas.dir = pre.dir
    /\ (pre.dir = "Rev" /\ cas.dir # "Rev") =>
           (Wrote /\ (ForBit \/ ~ RewBit))

\* a tick that moved a reversing tape from position 1 onto position 0
C3_Witness ==
    /\ Ticked
    /\ pre.dir = "Rev"
    /\ pre.pos = 1
    /\ cas.dir = "Rev"
    /\ cas.pos = 0

\* C4: a control write with the forward bit takes the position one up when
\* it is below the capacity and leaves it alone at the capacity; a tick that
\* comes while the last control byte carries the forward bit does not move
\* the head, so the position stays where the forward step left it.
C4_ForwardIsOneStep ==
    /\ (Wrote /\ ForBit) =>
           cas.pos = IF pre.pos < Len(pre.data)
                     THEN pre.pos + 1 ELSE pre.pos
    /\ (Ticked /\ ForBit) => cas.pos = pre.pos

\* a tick after the forward step that took the head onto the end of tape
C4_Witness ==
    /\ Ticked
    /\ ForBit
    /\ pre.pos = Len(pre.data)
    /\ cas.pos = Len(cas.data)

\* C5: a control write with the forward bit leaves the direction Stop,
\* whatever the direction and the position before it.
C5_ForwardLeavesStopped ==
    (Wrote /\ ForBit) => cas.dir = "Stop"

\* a forward written to a reversing tape standing at the end of tape
C5_Witness ==
    /\ Wrote
    /\ ForBit
    /\ pre.dir = "Rev"
    /\ pre.pos = Len(pre.data)
    /\ cas.dir = "Stop"

\* the last control byte carried the write-data, the write-command bit
DatBit == Bit(m_port_101f, 0)
CmdBit == Bit(m_port_101f, 1)

\* C6: a control write with neither the rewind nor the forward bit
\* (command_stop) leaves the direction Stop and the tape valid: position 0
\* becomes 1, position size becomes size - 1, any other position stays.
C6_StopLeavesValid ==
    (Wrote /\ ~ RewBit /\ ~ ForBit) =>
        LET n == Len(pre.data)
        IN  /\ cas.dir = "Stop"
            /\ valid(cas)
            /\ (pre.pos = 0) => cas.pos = 1
            /\ (pre.pos = n) => cas.pos = n - 1
            /\ (pre.pos # 0 /\ pre.pos # n) => cas.pos = pre.pos

\* a stop written while the head stood on the end of tape
C6_Witness ==
    /\ Wrote
    /\ ~ RewBit
    /\ ~ ForBit
    /\ pre.pos = Len(pre.data)
    /\ cas.pos = Len(cas.data) - 1
    /\ valid(cas)

\* C7: command_stop is idempotent: in every reachable state stop twice
\* gives the direction, position and storage stop once gives, and a second
\* write of a control byte that only stops changes nothing of the tape.
C7_StopIdempotent ==
    /\ stop(stop(cas)) = stop(cas)
    /\ (Wrote /\ ~ RewBit /\ ~ ForBit /\ ~ CmdBit) =>
           cas_101f(cas, m_port_101f) = cas

\* a tape reversing on the end of tape, where stop moves the head
C7_Witness ==
    /\ cas.dir = "Rev"
    /\ cas.pos = Len(cas.data)
    /\ stop(cas).pos = Len(cas.data) - 1
    /\ stop(cas).dir = "Stop"

\* C8: under command_reverse and ticks alone, on a tape of any capacity C,
\* the position never goes below 0 and valid() is false exactly when the
\* position is 0 or C.
C8_RewindStaysOnTape ==
    /\ cas.pos >= 0
    /\ (~ valid(cas)) <=> (cas.pos = 0 \/ cas.pos = Len(cas.data))

\* a tick on a reversing tape that already stood at position 0
C8_Witness ==
    /\ Ticked
    /\ pre.dir = "Rev"
    /\ pre.pos = 0
    /\ cas.pos = 0
    /\ ~ valid(cas)
    /\ Len(cas.data) > 1

\* C9: at a valid position p, write(b) then read() gives b, in every
\* reachable state and after every control write with the write-command bit
\* that leaves the position where it was; the write changes cell p - 1 to b
\* and no other cell.
C9_WriteReadRoundTrip ==
    /\ valid(cas) =>
           \A b \in BOOLEAN :
               /\ read(write(cas, b)) = b
               /\ write(cas, b).pos = cas.pos
               /\ write(cas, b).dir = cas.dir
               /\ Len(write(cas, b).data) = Len(cas.data)
               /\ \A i \in 0..(Len(cas.data) - 1) :
                      i # cas.pos - 1 =>
                          Cell(write(cas, b), i) = Cell(cas, i)
    /\ (Wrote /\ CmdBit /\ valid(pre)) =>
           /\ Len(cas.data) = Len(pre.data)
           /\ Cell(cas, pre.pos - 1) = (IF DatBit THEN 1 ELSE 0)
           /\ \A i \in 0..(Len(pre.data) - 1) :
                  i # pre.pos - 1 => Cell(cas, i) = Cell(pre, i)
           /\ (cas.pos = pre.pos) => (read(cas) = DatBit)

\* a 1 written over a 0 with the head staying where it was
C9_Witness ==
    /\ Wrote
    /\ CmdBit
    /\ DatBit
    /\ valid(pre)
    /\ Cell(pre, pre.pos - 1) = 0
    /\ cas.pos = pre.pos
    /\ read(cas)

\* C10: with the head at 0 or at the capacity read() is false and write(b)
\* changes nothing of the tape; a control write with the write-command bit
\* made there leaves the storage as it was, a status read there returns bit
\* 7 set (no data, inverted); every cell the code touches is inside data.
C10_OffTapeAbsorbed ==
    /\ (cas.pos = 0 \/ cas.pos = Len(cas.data)) =>
           /\ read(cas) = FALSE
           /\ \A b \in BOOLEAN : write(cas, b) = cas
    /\ (Wrote /\ CmdBit /\ (pre.pos = 0 \/ pre.pos = Len(pre.data))) =>
           cas.data = pre.data
    /\ (ReadStatus /\ (cas.pos = 0 \/ cas.pos = Len(cas.data))) =>
           Bit(ret[1], 7)
    /\ valid(cas) => (cas.pos - 1) \in 0..(Len(cas.data) - 1)

\* a 1 written with the head on the end of tape, over a last cell holding 0
C10_Witness ==
    /\ Wrote
    /\ CmdBit
    /\ DatBit
    /\ pre.pos = Len(pre.data)
    /\ Cell(pre, Len(pre.data) - 1) = 0
    /\ cas.data = pre.data
    /\ cas.pos = Len(cas.data)
    /\ ~ read(cas)

\* C11: the storage changes only in a control write that carries the
\* write-command bit: ticks, status reads and control writes without that
\* bit (rewind, forward, stop) leave every cell as it was, and so do the
\* MiniCas methods fwd, rev, move and stop in every reachable state.
C11_OnlyWriteChangesTape ==
    /\ (cas.data # pre.data) => (Wrote /\ CmdBit)
    /\ fwd(cas).data = cas.data
    /\ rev(cas).data = cas.data
    /\ move(cas).data = cas.data
    /\ stop(cas).data = cas.data

\* a rewind without the write-command bit over a tape that holds a 1
C11_Witness ==
    /\ Wrote
    /\ RewBit
    /\ ~ CmdBit
    /\ cas.dir = "Rev"
    /\ \E i \in 0..(Len(cas.data) - 1) : Cell(cas, i) = 1
    /\ cas.data = pre.data

\* C12: after n ticks, interleaved with any control writes and status
\* reads, m_rdc_1 is the level it started with when n is even and the
\* opposite level when n is odd (n counted below MaxTicks).
C12_ClockParity ==
    ticks < MaxTicks =>
        m_rdc_1 = (IF ticks % 2 = 0 THEN rdc_0 ELSE ~ rdc_0)

\* three ticks, then a control write: the level is the opposite one
C12_Witness ==
    /\ ticks = 3
    /\ Wrote
    /\ m_rdc_1 = ~ rdc_0

\* C13: from the fresh drive, command_reverse and then n ticks leave the
\* head at InitPos - n while n <= InitPos and at 0 from then on, still
\* reversing; once at 0 the tape is not valid and a status read returns bit
\* 5 clear, which is bit 5 set before the complement.
C13_RewindToBeginOfTape ==
    (op # "init") =>
        /\ cas.dir = "Rev"
        /\ (ticks < MaxTicks) =>
               cas.pos = IF ticks <= InitPos THEN InitPos - ticks ELSE 0
        /\ (ticks >= InitPos) =>
               /\ cas.pos = 0
               /\ ~ valid(cas)
               /\ ReadStatus =>
                      (~ Bit(ret[1], 5) /\ Bit(255 - ret[1], 5))

\* a status read after more ticks than the head was cells away from 0
C13_Witness ==
    /\ ReadStatus
    /\ ticks > InitPos
    /\ cas.pos = 0
    /\ ~ Bit(ret[1], 5)

\* C14 as stated: a control write that only rewinds, followed at once by a
\* control write that only forwards, leaves the position what it was before
\* the rewind and the direction Stop.
C14_RevFwdKeepsPosition ==
    [][ ( /\ Wrote /\ RewBit /\ ~ ForBit
          /\ op' = "p2000t_port_101f_w"
          /\ Bit(m_port_101f', 3) /\ ~ Bit(m_port_101f', 2) )
        => (cas'.pos = pre.pos /\ cas'.dir = "Stop") ]_vars

\* C14 amended: a control write that only rewinds, followed at once by a
\* control write that only forwards, leaves the position one above what it
\* was before the rewind (the same only at the capacity) and the direction
\* Stop.
C14_RevFwdStepsOnce ==
    [][ ( /\ Wrote /\ RewBit /\ ~ ForBit
          /\ op' = "p2000t_port_101f_w"
          /\ Bit(m_port_101f', 3) /\ ~ Bit(m_port_101f', 2) )
        => ( /\ cas'.pos = IF pre.pos < Len(pre.data)
                           THEN pre.pos + 1 ELSE pre.pos
             /\ cas'.dir = "Stop" ) ]_vars

\* a forward written to a tape that a rewind had set reversing: one step up
C14_Witness ==
    /\ Wrote
    /\ ForBit
    /\ ~ RewBit
    /\ pre.dir = "Rev"
    /\ pre.pos < Len(pre.data)
    /\ cas.pos = pre.pos + 1
    /\ cas.dir = "Stop"

\* C15: at a valid position p the control byte 3 leaves cell p - 1 at 1
\* and the control byte 2 leaves it at 0; the position stays p, the
\* direction is Stop, and the status read of that state carries the bit as
\* read-data: bit 7 of the returned byte is its complement.
C15_WriteCommandBytes ==
    (Wrote /\ m_port_101f \in {2, 3} /\ valid(pre)) =>
        /\ Cell(cas, pre.pos - 1) = m_port_101f - 2
        /\ cas.pos = pre.pos
        /\ cas.dir = "Stop"
        /\ Bit(status_202f(cas, m_rdc_1), 7) = (m_port_101f = 2)
        /\ Bit(255 - status_202f(cas, m_rdc_1), 7) = (m_port_101f = 3)

\* the byte 2 written over a cell that held 1
C15_Witness ==
    /\ Wrote
    /\ m_port_101f = 2
    /\ valid(pre)
    /\ Cell(pre, pre.pos - 1) = 1
    /\ Cell(cas, pre.pos - 1) = 0
    /\ cas.pos = pre.pos

\* C16: in every reachable state 0 <= pos <= data.size().
C16_PositionInRange ==
    /\ 0 <= cas.pos
    /\ cas.pos <= Len(cas.data)

\* a forward written with the head already on the end of tape
C16_Witness ==
    /\ Wrote
    /\ ForBit
    /\ pre.pos = Len(pre.data)
    /\ cas.pos = Len(cas.data)

\* C17: a stopped tape has pos >= 1, position 0 is held only by a reversing
\* tape, and the only position at which a stopped tape is not valid is the
\* capacity, which a control write reaches only with the forward bit, from
\* capacity - 1 or from the capacity itself.
C17_StoppedIsOffZero ==
    /\ (cas.dir = "Stop") => cas.pos >= 1
    /\ (cas.pos = 0) => cas.dir = "Rev"
    /\ (cas.dir = "Stop" /\ ~ valid(cas)) => cas.pos = Len(cas.data)
    /\ (Wrote /\ cas.dir = "Stop" /\ cas.pos = Len(cas.data)) =>
           /\ ForBit
           /\ pre.pos \in {Len(pre.data) - 1, Len(pre.data)}

\* a stop written to a tape reversing at position 0
C17_Witness ==
    /\ Wrote
    /\ ~ RewBit
    /\ ~ ForBit
    /\ pre.dir = "Rev"
    /\ pre.pos = 0
    /\ cas.dir = "Stop"
    /\ cas.pos = 1

\* C18: a control write with both the rewind and the forward bit leaves the
\* direction Stop and the position one up (the same at the capacity) with no
\* clamp, so the head can end on the capacity; ticks that follow while that
\* byte is the last one written do not move the head.
C18_RewindAndForward ==
    /\ (Wrote /\ RewBit /\ ForBit) =>
           /\ cas.dir = "Stop"
           /\ (pre.pos < Len(pre.data)) => cas.pos = pre.pos + 1
           /\ (pre.pos = Len(pre.data)) => cas.pos = pre.pos
    /\ (Ticked /\ RewBit /\ ForBit) => (cas.pos = pre.pos /\ cas.dir = "Stop")

\* both bits written at capacity - 1: the head ends on the capacity, stopped
C18_Witness ==
    /\ Wrote
    /\ RewBit
    /\ ForBit
    /\ pre.pos = Len(pre.data) - 1
    /\ cas.pos = Len(cas.data)
    /\ cas.dir = "Stop"

\* C19: a control write with the write-command bit stores the data bit in
\* cell p - 1 for the position p held on entry, and stores nothing when p is
\* 0 or the capacity, whatever position the forward step or the stop clamp
\* of the same write leaves the head at.
C19_WriteBeforeMotor ==
    (Wrote /\ CmdBit) =>
        /\ Len(cas.data) = Len(pre.data)
        /\ \A i \in 0..(Len(pre.data) - 1) :
               Cell(cas, i) =
                   IF 0 < pre.pos /\ pre.pos < Len(pre.data) /\ i = pre.pos - 1
                   THEN (IF DatBit THEN 1 ELSE 0)
                   ELSE Cell(pre, i)

\* a 1 written at position 0 with a stop: the head ends on cell 0, which
\* still holds 0
C19_Witness ==
    /\ Wrote
    /\ CmdBit
    /\ DatBit
    /\ pre.pos = 0
    /\ cas.pos = 1
    /\ valid(cas)
    /\ Cell(cas, 0) = 0
    /\ cas.data = pre.data

\* C20: a status read leaves cas, m_rdc_1 and m_port_101f as they were, and
\* a status read that follows a status read returns the same byte.
C20_StatusReadHasNoEffect ==
    [][ /\ (op' = "p2000t_port_202f_r") =>
               /\ cas' = cas
               /\ m_rdc_1' = m_rdc_1
               /\ m_port_101f' = m_port_101f
        /\ (ReadStatus /\ op' = "p2000t_port_202f_r") => ret' = ret ]_vars

\* a status read of a tape reversing at position 0, which stays there
C20_Witness ==
    /\ ReadStatus
    /\ cas.dir = "Rev"
    /\ cas.pos = 0
    /\ cas = pre
    /\ Bit(255 - ret[1], 5)

===========================================================================
